---- MODULE Spec2Model ----
(***************************************************************************)
(* Timed test session, autosave and submission flow of the TestTaking      *)
(* component (src/src/components/TestTaking.tsx) together with the session,*)
(* draft and submission stores it talks to.                                *)
(*                                                                         *)
(* One student, one assessment, one browser page.  Every await of the      *)
(* component is a point where other events (timer ticks, clicks, landing   *)
(* draft saves, the clock) may interleave; a handler together with the     *)
(* re-render and the effects it causes is one atomic step.  A draft save is *)
(* fire-and-forget: it is issued by the component and lands in the store   *)
(* in a later step; one save call is in flight at a time.                  *)
(***************************************************************************)
EXTENDS Integers, Sequences, FiniteSets, TLC

\* ---------------------------------------------------------------- bounds
MaxRuns       == 2      \* submitTest runs per behaviour

\* granularity of the modelled clock, in seconds
ClockStep == 60

\* ---------------------------------------------------------------- values
QuestionIds == {"q1", "q2"}
Options     == {"A", "B"}
TheoryTexts == {"", "B"}
NoSub       == 0
SessionId   == 1

EmptyAnswers == [q \in {} |-> ""]

AnswerMaps == UNION {[D -> Options] : D \in SUBSET QuestionIds}

Put(m, k, v) == [x \in (DOMAIN m) \cup {k} |-> IF x = k THEN v ELSE m[x]]

\* the assessment of the end-to-end scenarios: duration_minutes = 1, two MCQ
\* questions worth 1 mark each, correct answers "A" and "B"
ScenarioQuestions ==
  << [id |-> "q1", type |-> "MCQ", correct_answer |-> "A", marks |-> 1],
     [id |-> "q2", type |-> "MCQ", correct_answer |-> "B", marks |-> 1] >>

ScenarioAssessment == [duration_minutes |-> 1, questions |-> ScenarioQuestions]

\* the assessment of the reload scenario: as above, duration_minutes = 2
ResumeAssessment == [duration_minutes |-> 2, questions |-> ScenarioQuestions]

NoSession ==
  [exists |-> FALSE, id |-> 0, startedAt |-> 0, durationSeconds |-> 0,
   status |-> "none", lockedBySubmissionId |-> NoSub]

NoDraft == [exists |-> FALSE, answers |-> EmptyAnswers]

\* the browser is at the test route
NoView == [to |-> "test", submission |-> NoSub]

\* no execution result yet
NoResult == [status |-> "none", testsPassed |-> 0, totalTests |-> 0,
             output |-> << >>, expectedOutput |-> << >>, actualOutput |-> << >>]

\* the fields of a user that the management page changes
NoUser == [is_blocked |-> FALSE, role |-> "student", is_active |-> FALSE]

\* no hidden tests were run
NoHiddenData == [testsPassed |-> 0, totalTests |-> 0, results |-> << >>]

\* a question without test data and no call of the coding lab under way:
\* the two tables, the submitted program (what it answers to each stdin, or
\* << >> for a program that may answer anything), the function called and
\* its position, its locals, what the preview returned, and the history of
\* the executions and fetches
IdleCall == [question |-> [sample_input |-> << >>, sample_output |-> << >>],
             hidden |-> {}, stored |-> {}, program |-> << >>,
             fn |-> "none", pc |-> "idle", result |-> NoResult,
             hiddenTests |-> << >>, hiddenData |-> NoHiddenData,
             returned |-> NoResult, log |-> << >>]

\* the user management page with no user loaded and no handler running
IdleAdmin == [profile |-> NoUser, userRow |-> NoUser, listed |-> NoUser,
              pc |-> "idle", field |-> "none", value |-> "", profileErr |-> FALSE]

\* no execution asked for
IdleRun == [actual |-> << >>, expected |-> << >>, result |-> NoResult]

\* the browser tabs of the student
Tabs == {"tab1", "tab2"}

\* a tab that has not loaded the test view
IdleTab == [pc |-> "idle", found |-> FALSE, session |-> NoSession, timeLeft |-> 0]

\* no saveDraftAnswers call in flight
NoSave == [pending |-> FALSE, answers |-> EmptyAnswers, afterLock |-> FALSE]

VARIABLES
  \* ---- stores and clock
  now,                    \* current time in seconds
  questionBank,           \* the questions rows of the assessment
  durationMinutes,        \* duration_minutes of the assessment
  session,                \* the test_sessions row of (assessment, student)
  submissions,            \* the submissions table, in insertion order
  draft,                  \* the draft answers row of the session
  pendingSave,            \* the saveDraftAnswers call issued and not yet landed
  \* ---- component state (useState)
  mounted,                \* the TestTaking component is mounted
  initPc,                 \* position of initializeTest
  questions,
  answers,
  timeLeft,
  loading,
  submitting,
  testSession,
  isTimeExpired,
  error,
  showConfirmModal,
  showUnansweredWarning,
  hasShownFiveMinWarning,
  hasShownOneMinWarning,
  \* ---- effects
  timerActive,            \* the countdown interval is set
  timerAnswers,           \* the answers captured by the interval's closure
  saveIntervalActive,     \* the autosave interval is set
  ticked,                 \* the countdown interval has fired in this clock period
  \* ---- the submitTest run in flight
  pc,                     \* "idle" or the store call the run is waiting for
  runAnswers,             \* the answers captured by the run's closure
  runAuto,                \* isAutoSubmit of the run
  runSubmission,          \* id of the row the run inserted
  toastSubmission,        \* success toast pending: navigates on close
  runTrigger,             \* how and with which answers the run was triggered
  \* ---- history
  rowTrigger,             \* per submissions row: the trigger of its run
  runCount,               \* submitTest invocations so far
  autoCalls,              \* submitTest(true) invocations of the current page
  expiryTicks,            \* ticks of the current page that read a remaining time of 0
  finalized,              \* a submitTest run has completed successfully
  storeFailed,            \* a store call has failed
  \* ---- where the browser went when it left the test view
  resultsView,
  \* ---- the session store seen by two browser tabs
  sessionRows,            \* the test_sessions rows of (assessment, student)
  tabs,                   \* per tab: position, session held, timeLeft
  \* ---- the coding lab
  codeRun,                \* one PistonService.execute: stdout, expected output, result
  lab,                    \* one coding submission: tables, call, locals, history
  \* ---- user management
  admin                   \* one user in both tables and in the list, and the handler

storeVars == <<now, questionBank, durationMinutes, session, submissions, draft, pendingSave>>
stateVars == <<mounted, initPc, questions, answers, timeLeft, loading, submitting,
               testSession, isTimeExpired, error, showConfirmModal,
               showUnansweredWarning, hasShownFiveMinWarning, hasShownOneMinWarning>>
effectVars == <<timerActive, timerAnswers, saveIntervalActive, ticked>>
runVars == <<pc, runAnswers, runAuto, runSubmission, toastSubmission, runTrigger>>
histVars == <<rowTrigger, runCount, autoCalls, expiryTicks, finalized, storeFailed>>
tabVars == <<sessionRows, tabs>>
\* the variables of the other flows, which the test view leaves alone
otherVars == <<tabVars, codeRun, lab, admin>>
vars == <<storeVars, stateVars, effectVars, runVars, histVars, resultsView, otherVars>>

\* ------------------------------------------------------- session manager
Max(a, b) == IF a >= b THEN a ELSE b

\* remaining = max(0, durationSeconds - (now - startedAt))
calculateRemainingTime(s, t) == Max(0, s.durationSeconds - (t - s.startedAt))

\* find-or-create of the session of (assessment, student)
getOrCreateTestSession(s, minutes, t) ==
  IF s.exists THEN s
  ELSE [exists |-> TRUE, id |-> SessionId, startedAt |-> t,
        durationSeconds |-> minutes * 60,
        status |-> "in_progress", lockedBySubmissionId |-> NoSub]

\* completeTestSession writing the status whatever it was
completeTestSession_Unconditional(s) == [s EXCEPT !.status = "completed"]

\* in_progress -> completed; no-op on a completed or locked session
completeTestSession(s) ==
  IF s.status = "in_progress" THEN [s EXCEPT !.status = "completed"] ELSE s

\* status -> locked, lockedBySubmissionId set
lockTestSession(s, submissionId) ==
  [s EXCEPT !.status = "locked", !.lockedBySubmissionId = submissionId]

\* a guard that refuses locked sessions only
SessionLockGuard_LockedOnly(s) == s.status /= "locked"

\* re-entry guard in front of the test view: a locked or completed session
\* is refused
SessionLockGuard(s) == s.status \notin {"locked", "completed"}

\* where the guard sends a refused student: to the results of the locking
\* submission, or away from the test view of a session being finalized
GuardRedirect(s) ==
  IF s.status = "locked"
    THEN [to |-> "results", submission |-> s.lockedBySubmissionId]
    ELSE [to |-> "refused", submission |-> NoSub]

\* ------------------------------------------------------------ draft store
loadDraftAnswers(d) == IF d.exists THEN d.answers ELSE EmptyAnswers

saveDraftAnswers(m) == [exists |-> TRUE, answers |-> m]

\* ----------------------------------------------------------------- scoring
\* marks earned on one question: an MCQ question whose answer equals the
\* stored correct answer earns its marks, anything else earns nothing
Earned(q, ans) ==
  IF q.type = "MCQ" /\ q.id \in DOMAIN ans /\ ans[q.id] = q.correct_answer
    THEN q.marks ELSE 0

RECURSIVE GradeFrom(_, _, _)
GradeFrom(qs, i, ans) ==
  IF i > Len(qs) THEN 0 ELSE Earned(qs[i], ans) + GradeFrom(qs, i + 1, ans)

\* raw marks of the objective questions
autoGradeMCQ(qs, ans) == GradeFrom(qs, 1, ans)

RECURSIVE MarksFrom(_, _)
MarksFrom(qs, i) == IF i > Len(qs) THEN 0 ELSE qs[i].marks + MarksFrom(qs, i + 1)

\* questions.reduce((sum, q) => sum + q.marks, 0)
TotalMarks(qs) == MarksFrom(qs, 1)

\* ------------------------------------------------- double-precision numbers
\* A number of the script is an IEEE 754 double.  A positive one is held
\* here as a mantissa of MantissaBits bits, the leading one set, and a binary
\* exponent: its value is mantissa * 2^exp.  The mantissa is kept in three
\* limbs hi, mid, lo (hi * Limb^2 + mid * Limb + lo), as it does not fit the
\* integers TLC computes with.  The operators compute the correctly rounded
\* results (round to nearest, ties to even) of the division and of the
\* multiplication of the score expression, and Math.round of the result.
MantissaBits == 53

LimbBits == 20

HiBits == MantissaBits - 2 * LimbBits

RECURSIVE Power2(_)
Power2(k) == IF k = 0 THEN 1 ELSE 2 * Power2(k - 1)

Limb == Power2(LimbBits)

\* the number of bits of a positive integer
RECURSIVE BitLength(_)
BitLength(n) == IF n = 0 THEN 0 ELSE 1 + BitLength(n \div 2)

\* the double of mantissa m + 1 and exponent e, for the mantissa m of a double
RoundedUp(m, e) ==
  LET lo == (m.lo + 1) % Limb
      mid == (m.mid + ((m.lo + 1) \div Limb)) % Limb
      hi == m.hi + ((m.mid + ((m.lo + 1) \div Limb)) \div Limb)
  IN IF hi = Power2(HiBits)
       THEN [hi |-> Power2(HiBits - 1), mid |-> 0, lo |-> 0, exp |-> e + 1]
       ELSE [hi |-> hi, mid |-> mid, lo |-> lo, exp |-> e]

\* the number of doublings of n that keep twice the result below d (0 < n < d)
RECURSIVE LeadingShift(_, _)
LeadingShift(n, d) == IF 2 * n >= d THEN 0 ELSE 1 + LeadingShift(2 * n, d)

\* the double nearest to n / d, for integers 0 < n < d
DoubleQuotient(n, d) ==
  LET s == LeadingShift(n, d)
      r0 == n * Power2(s)
      hi == (r0 * Power2(HiBits)) \div d
      r1 == (r0 * Power2(HiBits)) % d
      mid == (r1 * Limb) \div d
      r2 == (r1 * Limb) % d
      lo == (r2 * Limb) \div d
      r3 == (r2 * Limb) % d
      e == 0 - (s + MantissaBits)
      m == [hi |-> hi, mid |-> mid, lo |-> lo, exp |-> e]
      up == \/ 2 * r3 > d
            \/ 2 * r3 = d /\ lo % 2 = 1
  IN IF up THEN RoundedUp(m, e) ELSE m

\* the double nearest to x * c, for a double x and a small positive integer c
DoubleTimes(x, c) ==
  LET lo == x.lo * c
      mid == (x.mid * c) + (lo \div Limb)
      hi == (x.hi * c) + (mid \div Limb)
      t == BitLength(hi) - HiBits
      cut == Power2(t)
      tail == lo % cut
      keep == [hi |-> hi \div cut,
               mid |-> ((mid % Limb) \div cut) + ((hi % cut) * (Limb \div cut)),
               lo |-> ((lo % Limb) \div cut) + ((mid % cut) * (Limb \div cut)),
               exp |-> x.exp + t]
      up == \/ 2 * tail > cut
            \/ 2 * tail = cut /\ keep.lo % 2 = 1
  IN IF up THEN RoundedUp(keep, keep.exp) ELSE keep

\* Math.round(x) = floor(x + 1/2), for a double 0 < x < 2^HiBits
DoubleRound(x) ==
  LET f == 0 - x.exp - 2 * LimbBits
  IN IF f > HiBits THEN 0
     ELSE IF f >= 1 THEN (x.hi \div Power2(f)) + ((x.hi \div Power2(f - 1)) % 2)
     ELSE x.hi + (x.mid \div Power2(LimbBits - 1))

\* Math.round((mcqScore / totalMarks) * 100) for 0 <= mcqScore <= totalMarks
MathRoundPercent(mcqScore, totalMarks) ==
  IF mcqScore = 0 THEN 0
  ELSE IF mcqScore = totalMarks THEN 100
  ELSE DoubleRound(DoubleTimes(DoubleQuotient(mcqScore, totalMarks), 100))

\* totalMarks > 0 ? Math.round((mcqScore / totalMarks) * 100) : 0
PercentageScore(mcqScore, totalMarks) ==
  IF totalMarks > 0 THEN MathRoundPercent(mcqScore, totalMarks) ELSE 0

\* the row submitTest inserts
SubmissionRow(newId, ts, qs, ans, isAutoSubmit) ==
  [id |-> newId,
   test_session_id |-> ts.id,
   answers |-> ans,
   mcq_score |-> autoGradeMCQ(qs, ans),
   total_score |-> PercentageScore(autoGradeMCQ(qs, ans), TotalMarks(qs)),
   is_auto_submitted |-> isAutoSubmit]

\* ----------------------------------------------------------------- effects
\* the countdown effect without its isTimeExpired test
TimerEffectRuns_IgnoringExpiry(ts, expired, sub) == ts.exists /\ ~sub

\* the countdown effect without its submitting test
TimerEffectRuns_IgnoringSubmitting(ts, expired, sub) == ts.exists /\ ~expired

\* guard of the countdown effect: if (!testSession || isTimeExpired || submitting) return
TimerEffectRuns(ts, expired, sub) == ts.exists /\ ~expired /\ ~sub

\* guard of the autosave effect:
\* if (!testSession || submitting || Object.keys(answers).length === 0) return
AutosaveEffectRuns(ts, sub, ans) == ts.exists /\ ~sub /\ DOMAIN ans /= {}

TimerDeps == <<testSession, isTimeExpired, submitting,
               hasShownFiveMinWarning, hasShownOneMinWarning>>

AutosaveDeps == <<testSession, answers, submitting>>

\* saveDraftAnswers(testSession.id, m) is called and not awaited
IssueSave(m) ==
  /\ ~pendingSave.pending
  /\ pendingSave' = [pending |-> TRUE, answers |-> m,
                     afterLock |-> session.status = "locked"]

\* the effects of the render that follows a state update: an effect whose
\* dependencies changed is cleaned up and run again, and the closures it
\* creates see the state of that render
RenderEffects ==
  /\ IF TimerDeps' /= TimerDeps
       THEN /\ timerActive' = TimerEffectRuns(testSession', isTimeExpired', submitting')
            /\ timerAnswers' = IF timerActive' THEN answers' ELSE EmptyAnswers
       ELSE UNCHANGED <<timerActive, timerAnswers>>
  /\ IF AutosaveDeps' /= AutosaveDeps
       THEN /\ saveIntervalActive' = AutosaveEffectRuns(testSession', submitting', answers')
            /\ IF saveIntervalActive' THEN IssueSave(answers') ELSE UNCHANGED pendingSave
       ELSE UNCHANGED <<saveIntervalActive, pendingSave>>

\* the effects after a step that is not a tick of the countdown interval
RunEffects == RenderEffects /\ UNCHANGED ticked

\* the main test view is rendered (not the loading, error or expired screen)
MainView == mounted /\ ~loading /\ ~error /\ testSession.exists /\ ~isTimeExpired

NoModal == ~showConfirmModal /\ ~showUnansweredWarning

\* !answers[q.id]
Unanswered(q, ans) == q.id \notin DOMAIN ans \/ ans[q.id] = ""

\* what the student can enter for a question: one of the options of an MCQ
\* question, free text for a theory question
AnswerChoices(q) == IF q.type = "MCQ" THEN Options ELSE TheoryTexts

NoTrigger == [kind |-> "none", answers |-> EmptyAnswers]

\* ------------------------------------------------------------------- Init
FreshComponent ==
  /\ mounted = TRUE
  /\ initPc = "session"
  /\ questions = << >>
  /\ answers = EmptyAnswers
  /\ timeLeft = 0
  /\ loading = TRUE
  /\ submitting = FALSE
  /\ testSession = NoSession
  /\ isTimeExpired = FALSE
  /\ error = FALSE
  /\ showConfirmModal = FALSE
  /\ showUnansweredWarning = FALSE
  /\ hasShownFiveMinWarning = FALSE
  /\ hasShownOneMinWarning = FALSE
  /\ timerActive = FALSE
  /\ timerAnswers = EmptyAnswers
  /\ saveIntervalActive = FALSE
  /\ ticked = FALSE
  /\ pc = "idle"
  /\ runAnswers = EmptyAnswers
  /\ runAuto = FALSE
  /\ runSubmission = NoSub
  /\ toastSubmission = NoSub
  /\ runTrigger = NoTrigger
  /\ resultsView = NoView

\* the two-tab session flow at rest
IdleTabs ==
  /\ sessionRows = {}
  /\ tabs = [t \in Tabs |-> IdleTab]

\* the coding lab at rest
IdleLab ==
  /\ codeRun = IdleRun
  /\ lab = IdleCall

EmptyStores ==
  /\ now = 0
  /\ session = NoSession
  /\ submissions = << >>
  /\ draft = NoDraft
  /\ pendingSave = NoSave

NoHistory ==
  /\ rowTrigger = << >>
  /\ runCount = 0
  /\ autoCalls = 0
  /\ expiryTicks = 0
  /\ finalized = FALSE
  /\ storeFailed = FALSE

Init ==
  /\ questionBank = ScenarioAssessment.questions
  /\ durationMinutes = ScenarioAssessment.duration_minutes
  /\ EmptyStores
  /\ FreshComponent
  /\ NoHistory
  /\ IdleTabs
  /\ IdleLab
  /\ admin = IdleAdmin

\* ------------------------------------------------------------ submitTest
\* handleAutoSubmit passing the flag of the manual path
AutoSubmitArg_Manual == FALSE

\* handleAutoSubmit: submitTest(true)
AutoSubmitArg == TRUE

\* handleConfirmSubmit: submitTest(false)
ConfirmSubmitArg == FALSE

\* submitTest up to its first await: setSubmitting(true) and the call of
\* completeTestSession; the run works on the answers of its closure
StartSubmit(isAutoSubmit, closureAnswers, kind) ==
  /\ runCount < MaxRuns
  /\ pc = "idle"
  /\ submitting' = TRUE
  /\ pc' = "complete"
  /\ runAnswers' = closureAnswers
  /\ runAuto' = isAutoSubmit
  /\ runSubmission' = NoSub
  /\ runTrigger' = [kind |-> kind, answers |-> answers]
  /\ runCount' = runCount + 1

\* the run is over: its closure is dropped
EndRun ==
  /\ pc' = "idle"
  /\ runAnswers' = EmptyAnswers
  /\ runAuto' = FALSE
  /\ runSubmission' = NoSub
  /\ runTrigger' = NoTrigger

\* a run that leaves the submitting flag set
SubmittingAfterRun_Stuck == TRUE

\* finally: setSubmitting(false)
SubmittingAfterRun == FALSE

\* catch and finally of submitTest; the state setters of an unmounted
\* component do nothing
RunFails ==
  /\ EndRun
  /\ storeFailed' = TRUE
  /\ IF mounted
       THEN /\ error' = TRUE
            /\ showConfirmModal' = FALSE
            /\ submitting' = SubmittingAfterRun
       ELSE UNCHANGED <<error, showConfirmModal, submitting>>
  /\ UNCHANGED <<mounted, initPc, questions, answers, timeLeft, loading, testSession,
                 isTimeExpired, showUnansweredWarning, hasShownFiveMinWarning,
                 hasShownOneMinWarning, toastSubmission>>
  /\ RunEffects
  /\ UNCHANGED <<rowTrigger, runCount, autoCalls, expiryTicks, finalized>>

\* an awaited store call of the run returns and the run goes on to `next`
RunGoesOn(next) ==
  /\ pc' = next
  /\ UNCHANGED <<stateVars, effectVars, pendingSave, runAnswers, runAuto,
                 toastSubmission, runTrigger>>
  /\ UNCHANGED <<runCount, autoCalls, expiryTicks, finalized>>

\* the run going on to the lock without looking at submitError
AfterInsert_Unchecked(ok) == "lock"

\* where the run goes after the insert: if (submitError) throw submitError
AfterInsert(ok) == IF ok THEN "lock" ELSE "failed"

\* a run that goes from the completed session straight on to the lock
AfterComplete_SkipInsert == "lock"

\* where the run goes once completeTestSession has returned: the score and
\* the insert
AfterComplete == "insert"

\* await completeTestSession(testSession.id)
StepComplete ==
  /\ pc = "complete"
  /\ \/ /\ session' = completeTestSession(session)
        /\ RunGoesOn(AfterComplete)
        /\ UNCHANGED <<runSubmission, rowTrigger, storeFailed>>
     \/ /\ RunFails
        /\ UNCHANGED session
  /\ UNCHANGED <<now, questionBank, durationMinutes, submissions, draft>>
  /\ UNCHANGED <<resultsView, otherVars>>

\* the score computation and await supabase.from('submissions').insert(...)
StepInsert ==
  /\ pc = "insert"
  /\ \E ok \in BOOLEAN :
       IF AfterInsert(ok) = "lock"
         THEN /\ submissions' =
                   IF ok THEN Append(submissions,
                                SubmissionRow(Len(submissions) + 1, testSession,
                                              questions, runAnswers, runAuto))
                         ELSE submissions
              /\ rowTrigger' = IF ok THEN Append(rowTrigger, runTrigger) ELSE rowTrigger
              /\ runSubmission' = IF ok THEN Len(submissions) + 1 ELSE NoSub
              /\ storeFailed' = (storeFailed \/ ~ok)
              /\ RunGoesOn("lock")
         ELSE /\ RunFails
              /\ UNCHANGED submissions
  /\ UNCHANGED <<now, questionBank, durationMinutes, session, draft>>
  /\ UNCHANGED <<resultsView, otherVars>>

\* await lockTestSession(testSession.id, submission.id)
StepLock ==
  /\ pc = "lock"
  /\ \/ /\ session' = lockTestSession(session, runSubmission)
        /\ RunGoesOn("delete")
        /\ UNCHANGED <<runSubmission, rowTrigger, storeFailed>>
     \/ /\ RunFails
        /\ UNCHANGED session
  /\ UNCHANGED <<now, questionBank, durationMinutes, submissions, draft>>
  /\ UNCHANGED <<resultsView, otherVars>>

\* await deleteDraftAnswers(testSession.id), then the success toast,
\* setShowConfirmModal(false) and finally setSubmitting(false)
StepDelete ==
  /\ pc = "delete"
  /\ \/ /\ draft' = NoDraft
        /\ EndRun
        /\ finalized' = TRUE
        /\ IF mounted
             THEN /\ toastSubmission' = runSubmission
                  /\ showConfirmModal' = FALSE
                  /\ submitting' = SubmittingAfterRun
             ELSE UNCHANGED <<toastSubmission, showConfirmModal, submitting>>
        /\ UNCHANGED <<mounted, initPc, questions, answers, timeLeft, loading,
                       testSession, isTimeExpired, error, showUnansweredWarning,
                       hasShownFiveMinWarning, hasShownOneMinWarning>>
        /\ RunEffects
        /\ UNCHANGED <<rowTrigger, runCount, autoCalls, expiryTicks, storeFailed>>
     \/ /\ RunFails
        /\ UNCHANGED draft
  /\ UNCHANGED <<now, questionBank, durationMinutes, session, submissions>>
  /\ UNCHANGED <<resultsView, otherVars>>

\* ---------------------------------------------------------- initializeTest
\* initializeTest up to setTestSession(session): the assessment and its
\* questions are fetched and the session is found or created
InitializeSession ==
  /\ mounted /\ initPc = "session"
  /\ \/ /\ questions' = questionBank
        /\ session' = getOrCreateTestSession(session, durationMinutes, now)
        /\ testSession' = session'
        /\ initPc' = "draft"
        /\ UNCHANGED <<error, loading, storeFailed>>
     \/ /\ error' = TRUE
        /\ loading' = FALSE
        /\ initPc' = "done"
        /\ storeFailed' = TRUE
        /\ UNCHANGED <<questions, session, testSession>>
  /\ UNCHANGED <<mounted, answers, timeLeft, submitting, isTimeExpired,
                 showConfirmModal, showUnansweredWarning, hasShownFiveMinWarning,
                 hasShownOneMinWarning>>
  /\ RunEffects
  /\ UNCHANGED <<now, questionBank, durationMinutes, submissions, draft, runVars,
                 rowTrigger, runCount, autoCalls, expiryTicks, finalized>>
  /\ UNCHANGED <<resultsView, otherVars>>

\* the countdown of a loaded page starting from the full duration
InitialTimeLeft_FullDuration(ts, t) == ts.durationSeconds

\* const remaining = calculateRemainingTime(session); setTimeLeft(remaining)
InitialTimeLeft(ts, t) == calculateRemainingTime(ts, t)

\* the rest of initializeTest: the draft is loaded into the answers, the
\* remaining time is computed and an expired session is flagged
InitializeDraft ==
  /\ mounted /\ initPc = "draft"
  /\ initPc' = "done"
  /\ loading' = FALSE
  /\ \/ /\ answers' = loadDraftAnswers(draft)
        /\ timeLeft' = InitialTimeLeft(testSession, now)
        /\ isTimeExpired' = (isTimeExpired \/ InitialTimeLeft(testSession, now) <= 0)
        /\ UNCHANGED <<error, storeFailed>>
     \/ /\ error' = TRUE
        /\ storeFailed' = TRUE
        /\ UNCHANGED <<answers, timeLeft, isTimeExpired>>
  /\ UNCHANGED <<mounted, questions, submitting, testSession, showConfirmModal,
                 showUnansweredWarning, hasShownFiveMinWarning, hasShownOneMinWarning>>
  /\ RunEffects
  /\ UNCHANGED <<now, questionBank, durationMinutes, session, submissions, draft,
                 runVars, rowTrigger, runCount, autoCalls, expiryTicks, finalized>>
  /\ UNCHANGED <<resultsView, otherVars>>

\* ------------------------------------------------------ countdown interval
\* one callback of the countdown interval
Tick ==
  /\ mounted /\ timerActive
  /\ LET remaining == calculateRemainingTime(testSession, now) IN
       IF remaining <= 0
         THEN /\ isTimeExpired' = TRUE
              /\ timeLeft' = 0
              /\ expiryTicks' = expiryTicks + 1
              /\ autoCalls' = autoCalls + 1
              /\ StartSubmit(AutoSubmitArg, timerAnswers, "timer")
              /\ UNCHANGED <<hasShownFiveMinWarning, hasShownOneMinWarning>>
         ELSE /\ timeLeft' = remaining
              /\ hasShownFiveMinWarning' =
                   (hasShownFiveMinWarning \/ (remaining > 60 /\ remaining <= 300))
              /\ hasShownOneMinWarning' = (hasShownOneMinWarning \/ remaining <= 60)
              /\ UNCHANGED <<isTimeExpired, submitting, expiryTicks, autoCalls, runCount,
                             pc, runAnswers, runAuto, runSubmission, runTrigger>>
  /\ ticked' = TRUE
  /\ UNCHANGED <<mounted, initPc, questions, answers, loading, testSession, error,
                 showConfirmModal, showUnansweredWarning, toastSubmission>>
  /\ RenderEffects
  /\ UNCHANGED <<now, questionBank, durationMinutes, session, submissions, draft,
                 rowTrigger, finalized, storeFailed>>
  /\ UNCHANGED <<resultsView, otherVars>>

\* ------------------------------------------------------------ autosave
\* one callback of the autosave interval: saveDraftAnswers(testSession.id, answers)
AutosaveTick ==
  /\ mounted /\ saveIntervalActive
  /\ IssueSave(answers)
  /\ UNCHANGED <<now, questionBank, durationMinutes, session, submissions, draft,
                 stateVars, effectVars, runVars, histVars>>
  /\ UNCHANGED <<resultsView, otherVars>>

\* a save whose failure is shown on the error screen
ErrorAfterSave_Shown(err, ok) == err \/ ~ok

\* the error state after a save has landed: the call is not awaited and its
\* outcome is not looked at
ErrorAfterSave(err, ok) == err

\* the saveDraftAnswers call reaches the draft store: the row is overwritten
\* wholesale, or the call fails and the failure is only logged
SaveLands ==
  /\ pendingSave.pending
  /\ pendingSave' = NoSave
  /\ \E ok \in BOOLEAN :
       /\ draft' = IF ok THEN saveDraftAnswers(pendingSave.answers) ELSE draft
       /\ storeFailed' = (storeFailed \/ ~ok)
       /\ error' = IF mounted THEN ErrorAfterSave(error, ok) ELSE error
  /\ UNCHANGED <<mounted, initPc, questions, answers, timeLeft, loading, submitting,
                 testSession, isTimeExpired, showConfirmModal, showUnansweredWarning,
                 hasShownFiveMinWarning, hasShownOneMinWarning>>
  /\ UNCHANGED <<now, questionBank, durationMinutes, session, submissions,
                 effectVars, runVars, rowTrigger, runCount, autoCalls,
                 expiryTicks, finalized>>
  /\ UNCHANGED <<resultsView, otherVars>>

\* ------------------------------------------------------------ UI handlers
\* handleAnswerChange(questionId, answer)
AnswerChange ==
  /\ MainView /\ NoModal
  /\ \E i \in 1..Len(questions) : \E a \in AnswerChoices(questions[i]) :
       /\ a /= (IF questions[i].id \in DOMAIN answers THEN answers[questions[i].id] ELSE "")
       /\ answers' = Put(answers, questions[i].id, a)
  /\ UNCHANGED <<mounted, initPc, questions, timeLeft, loading, submitting,
                 testSession, isTimeExpired, error, showConfirmModal,
                 showUnansweredWarning, hasShownFiveMinWarning, hasShownOneMinWarning>>
  /\ RunEffects
  /\ UNCHANGED <<now, questionBank, durationMinutes, session, submissions, draft,
                 runVars, histVars>>
  /\ UNCHANGED <<resultsView, otherVars>>

\* handleSubmitClick: the Submit Test button is disabled while submitting
SubmitClick ==
  /\ MainView /\ NoModal /\ ~submitting
  /\ IF \E i \in 1..Len(questions) : Unanswered(questions[i], answers)
       THEN showUnansweredWarning' = TRUE /\ UNCHANGED showConfirmModal
       ELSE showConfirmModal' = TRUE /\ UNCHANGED showUnansweredWarning
  /\ UNCHANGED <<mounted, initPc, questions, answers, timeLeft, loading, submitting,
                 testSession, isTimeExpired, error, hasShownFiveMinWarning,
                 hasShownOneMinWarning>>
  /\ UNCHANGED <<storeVars, effectVars, runVars, histVars>>
  /\ UNCHANGED <<resultsView, otherVars>>

\* handleConfirmUnanswered
ConfirmUnanswered ==
  /\ MainView /\ showUnansweredWarning
  /\ showUnansweredWarning' = FALSE
  /\ showConfirmModal' = TRUE
  /\ UNCHANGED <<mounted, initPc, questions, answers, timeLeft, loading, submitting,
                 testSession, isTimeExpired, error, hasShownFiveMinWarning,
                 hasShownOneMinWarning>>
  /\ UNCHANGED <<storeVars, effectVars, runVars, histVars>>
  /\ UNCHANGED <<resultsView, otherVars>>

\* onCancel of either modal
CancelModal ==
  /\ MainView /\ ~NoModal /\ ~submitting
  /\ showUnansweredWarning' = FALSE
  /\ showConfirmModal' = FALSE
  /\ UNCHANGED <<mounted, initPc, questions, answers, timeLeft, loading, submitting,
                 testSession, isTimeExpired, error, hasShownFiveMinWarning,
                 hasShownOneMinWarning>>
  /\ UNCHANGED <<storeVars, effectVars, runVars, histVars>>
  /\ UNCHANGED <<resultsView, otherVars>>

\* handleConfirmSubmit: the confirm button of the final confirmation, which
\* is in its loading state while submitting
ConfirmSubmit ==
  /\ MainView /\ showConfirmModal /\ ~submitting
  /\ StartSubmit(ConfirmSubmitArg, answers, "manual")
  /\ UNCHANGED <<mounted, initPc, questions, answers, timeLeft, loading, testSession,
                 isTimeExpired, error, showConfirmModal, showUnansweredWarning,
                 hasShownFiveMinWarning, hasShownOneMinWarning, toastSubmission>>
  /\ RunEffects
  /\ UNCHANGED <<now, questionBank, durationMinutes, session, submissions, draft,
                 rowTrigger, autoCalls, expiryTicks, finalized, storeFailed>>
  /\ UNCHANGED <<resultsView, otherVars>>

\* ------------------------------------------------------------ navigation
\* an interval that goes on after the component is gone
IntervalAfterCleanup_Kept(active) == active

\* the cleanup of an effect: return () => clearInterval(...)
IntervalAfterCleanup(active) == FALSE

\* the component is unmounted: its intervals are cleared and its state is gone
Unmount ==
  /\ mounted' = FALSE
  /\ initPc' = "done"
  /\ answers' = EmptyAnswers
  /\ timeLeft' = 0
  /\ loading' = FALSE
  /\ submitting' = FALSE
  /\ isTimeExpired' = FALSE
  /\ error' = FALSE
  /\ showConfirmModal' = FALSE
  /\ showUnansweredWarning' = FALSE
  /\ hasShownFiveMinWarning' = FALSE
  /\ hasShownOneMinWarning' = FALSE
  /\ timerActive' = IntervalAfterCleanup(timerActive)
  /\ timerAnswers' = EmptyAnswers
  /\ saveIntervalActive' = IntervalAfterCleanup(saveIntervalActive)
  /\ ticked' = ticked
  /\ toastSubmission' = NoSub

\* onClose of the success toast: navigate to the results of the submission
ToastNavigate ==
  /\ mounted /\ toastSubmission /= NoSub
  /\ Unmount
  /\ resultsView' = [to |-> "results", submission |-> toastSubmission]
  /\ UNCHANGED <<questions, testSession, pc, runAnswers, runAuto, runSubmission,
                 runTrigger>>
  /\ UNCHANGED <<storeVars, histVars>>
  /\ UNCHANGED otherVars

\* Back to Dashboard on the error and the time-expired screen; a run in
\* flight goes on
BackToDashboard ==
  /\ mounted /\ ~loading /\ (error \/ isTimeExpired)
  /\ Unmount
  /\ resultsView' = [to |-> "dashboard", submission |-> NoSub]
  /\ UNCHANGED <<questions, testSession, pc, runAnswers, runAuto, runSubmission,
                 runTrigger>>
  /\ UNCHANGED <<storeVars, histVars>>
  /\ UNCHANGED otherVars

\* the page is loaded (again) at the test route: the script state of the old
\* page is gone, a call already sent to a store still lands; the re-entry
\* guard lets a session in that is neither completed nor locked
Reload ==
  /\ session.exists
  /\ EndRun
  /\ questions' = << >>
  /\ testSession' = NoSession
  /\ autoCalls' = 0
  /\ expiryTicks' = 0
  /\ IF SessionLockGuard(session)
       THEN /\ mounted' = TRUE
            /\ initPc' = "session"
            /\ answers' = EmptyAnswers
            /\ timeLeft' = 0
            /\ loading' = TRUE
            /\ submitting' = FALSE
            /\ isTimeExpired' = FALSE
            /\ error' = FALSE
            /\ showConfirmModal' = FALSE
            /\ showUnansweredWarning' = FALSE
            /\ hasShownFiveMinWarning' = FALSE
            /\ hasShownOneMinWarning' = FALSE
            /\ timerActive' = FALSE
            /\ timerAnswers' = EmptyAnswers
            /\ saveIntervalActive' = FALSE
            /\ ticked' = ticked
            /\ toastSubmission' = NoSub
            /\ resultsView' = NoView
       ELSE /\ Unmount
            /\ resultsView' = GuardRedirect(session)
  /\ UNCHANGED <<storeVars, rowTrigger, runCount, finalized, storeFailed>>
  /\ UNCHANGED otherVars

\* ------------------------------------------------------------------ clock
\* a clock period passes; a countdown interval that is set at the end of the
\* period has fired in it (the interval is far shorter than the period).
\* The clock is followed up to the deadline of the session, after which the
\* remaining time stays 0
AdvanceTime ==
  /\ session.exists
  /\ calculateRemainingTime(session, now) > 0
  /\ timerActive => ticked
  /\ now' = now + ClockStep
  /\ ticked' = FALSE
  /\ UNCHANGED <<questionBank, durationMinutes, session, submissions, draft,
                 pendingSave, stateVars, timerActive, timerAnswers,
                 saveIntervalActive, runVars, histVars>>
  /\ UNCHANGED <<resultsView, otherVars>>

Next ==
  \/ InitializeSession
  \/ InitializeDraft
  \/ Tick
  \/ AutosaveTick
  \/ SaveLands
  \/ AnswerChange
  \/ SubmitClick
  \/ ConfirmUnanswered
  \/ CancelModal
  \/ ConfirmSubmit
  \/ StepComplete
  \/ StepInsert
  \/ StepLock
  \/ StepDelete
  \/ ToastNavigate
  \/ BackToDashboard
  \/ Reload
  \/ AdvanceTime

Spec == Init /\ [][Next]_vars

\* ===================================================================
\* Properties
\* ===================================================================
Rows == DOMAIN submissions

RowsOfSession == {i \in Rows : submissions[i].test_session_id = session.id}

\* a run in flight of a mounted page holds the submitting flag
RunHoldsSubmitting == (mounted /\ pc /= "idle") => submitting

\* ---- C1: whatever the sequence of submit triggers, the submissions store
\* holds at most one row for the session
C1_AtMostOneSubmission == Cardinality(RowsOfSession) <= 1

\* ---- C2: on a page, submitTest(true) is invoked at most once, and exactly
\* once when a countdown tick has read a remaining time of 0
C2_AutoSubmitOnce ==
  /\ autoCalls <= 1
  /\ expiryTicks >= 1 => autoCalls = 1

\* the auto-submit run of an expired page is over and the page is still open
C2_Witness ==
  /\ mounted /\ isTimeExpired /\ expiryTicks = 1 /\ autoCalls = 1
  /\ pc = "idle" /\ ~submitting

\* ---- C3: the session status only moves forward along in_progress,
\* completed, locked; completeTestSession on a completed or locked session
\* (the first store call of a repeated submitTest run) leaves it unchanged
StatusRank(st) ==
  CASE st = "none" -> 0
    [] st = "in_progress" -> 1
    [] st = "completed" -> 2
    [] st = "locked" -> 3

C3_StatusMonotonic ==
  [][ /\ StatusRank(session'.status) >= StatusRank(session.status)
      /\ (pc = "complete" /\ session.status \in {"completed", "locked"})
           => session'.status = session.status ]_vars

\* a repeated submitTest run has called completeTestSession on a locked
\* session and gone on
C3_Witness == pc = "insert" /\ session.status = "locked"

\* ---- C4: a locked session points to a submissions row that exists for
\* it, and lockTestSession is only called with the id of a row that the
\* insert has created
C4_LockedHasSubmission ==
  /\ session.status = "locked" =>
       \E i \in RowsOfSession : submissions[i].id = session.lockedBySubmissionId
  /\ pc \in {"lock", "delete"} =>
       \E i \in RowsOfSession : submissions[i].id = runSubmission

C4_Witness ==
  /\ session.status = "locked"
  /\ \E i \in RowsOfSession : submissions[i].id = session.lockedBySubmissionId

\* ---- C5: once the session is locked, no later completeTestSession call,
\* draft save or submit attempt changes persisted state; the only writes
\* left are the draft deletion of the run that locked and the landing of a
\* save that was issued before the lock
C5_LockedIsReadOnly ==
  [][ session.status = "locked" =>
        /\ session' = session
        /\ submissions' = submissions
        /\ \/ draft' = draft
           \/ /\ pc = "delete" /\ runSubmission = session.lockedBySubmissionId
              /\ draft' = NoDraft
           \/ pendingSave.pending /\ ~pendingSave.afterLock ]_vars

\* ---- C6: once a submitTest run has completed successfully there is no
\* draft row for the session
C6_NoDraftAfterSubmit == finalized => ~draft.exists

\* ---- C7: for the two-question scenario, when every store call succeeds
\* and exactly q1 is answered (correctly) at the moment the countdown
\* reaches 0, the auto-submitted row has mcq_score 1 and total_score 50
ScenarioQ1Only == [q \in {"q1"} |-> "A"]

ScenarioBoth == [q \in {"q1", "q2"} |-> IF q = "q1" THEN "A" ELSE "B"]

C7_AutoSubmitScenario ==
  \A i \in Rows :
    (~storeFailed /\ rowTrigger[i].kind = "timer" /\ rowTrigger[i].answers = ScenarioQ1Only)
      => /\ submissions[i].is_auto_submitted
         /\ submissions[i].mcq_score = 1
         /\ submissions[i].total_score = 50

\* ---- C8: the answers stored in a row are the in-memory answers at the
\* moment its submission was triggered
C8_SnapshotIsCurrent ==
  \A i \in Rows : submissions[i].answers = rowTrigger[i].answers

\* ---- C10: is_auto_submitted is true exactly for a row triggered by the
\* countdown and false exactly for one triggered by the manual confirm; a
\* manual submit with both questions answered correctly stores 100
C10_AutoFlagMatchesTrigger ==
  \A i \in Rows :
    /\ submissions[i].is_auto_submitted <=> rowTrigger[i].kind = "timer"
    /\ ~submissions[i].is_auto_submitted <=> rowTrigger[i].kind = "manual"
    /\ (rowTrigger[i].kind = "manual" /\ rowTrigger[i].answers = ScenarioBoth)
         => submissions[i].total_score = 100 /\ ~submissions[i].is_auto_submitted

\* a row of each trigger is stored, the manual one with both answers right
C10_Witness ==
  /\ \E i \in Rows : rowTrigger[i].kind = "timer" /\ submissions[i].is_auto_submitted
  /\ \E i \in Rows : /\ rowTrigger[i].kind = "manual"
                     /\ rowTrigger[i].answers = ScenarioBoth
                     /\ submissions[i].total_score = 100

\* the page is loaded at the test route
PageLoad == testSession.exists /\ ~testSession'.exists

\* the student changes an answer in the open view
Edit ==
  /\ mounted /\ mounted' /\ initPc = "done" /\ initPc' = "done"
  /\ answers' /= answers

C16_ExpiredEntryAutoSubmits ==
  (mounted /\ initPc = "done" /\ ~error /\ isTimeExpired) => autoCalls >= 1

\* a store call of the submitTest run fails in this step (the first failure
\* of the behaviour)
StepFails ==
  /\ pc /= "idle" /\ ~storeFailed /\ storeFailed'
  /\ initPc' = initPc
  /\ ~(pendingSave.pending /\ ~pendingSave'.pending)

\* ---- C20: when a step of submitTest fails the run ends there (no later
\* step is executed), the session, submission and draft stores stay as
\* they were, and on the open page the error is shown and submitting is
\* false again
C20_FailureAborts ==
  [][ StepFails =>
        /\ pc' = "idle"
        /\ session' = session
        /\ submissions' = submissions
        /\ draft' = draft
        /\ mounted => (error' /\ ~submitting') ]_vars

\* the lock failed after the insert: the session stays completed, the row
\* stays, the error is shown
C20_Witness ==
  /\ storeFailed /\ pc = "idle" /\ mounted /\ error /\ ~submitting
  /\ session.status = "completed"
  /\ Len(submissions) = 1
  /\ draft.exists

\* ---- draft saves and the submit run
\* a saveDraftAnswers call is issued in this step
SaveIssued == pendingSave'.pending /\ pendingSave' /= pendingSave

\* a saveDraftAnswers call lands in this step and has failed: the draft row
\* is not what the call carried
SaveFails ==
  /\ pendingSave.pending
  /\ ~pendingSave'.pending
  /\ draft' = draft
  /\ draft /= saveDraftAnswers(pendingSave.answers)

\* C21: a failed draft save changes nothing the student sees and undoes no
\* answer: the answers, the error state, the submitting flag and the rest of
\* the component state are as before, the autosave interval stays set, and
\* every save that is issued carries the answers of that moment.
C21_FailedSaveIsSilent ==
  [][ /\ SaveFails => UNCHANGED <<stateVars, effectVars, runVars>>
      /\ (SaveFails /\ mounted /\ saveIntervalActive) => ~pendingSave'.pending
      /\ SaveIssued => pendingSave'.answers = answers' ]_vars

\* a save has failed on a page that shows the test with an answer given and
\* the autosave interval set
C21_Witness ==
  /\ storeFailed /\ runCount = 0 /\ MainView
  /\ DOMAIN answers /= {} /\ ~draft.exists
  /\ saveIntervalActive /\ ~pendingSave.pending

C23_StoreOrder ==
  [][ /\ pc' /= pc =>
           \/ pc' = "idle"
           \/ <<pc, pc'>> \in {<<"idle", "complete">>, <<"complete", "insert">>,
                                <<"insert", "lock">>, <<"lock", "delete">>}
      /\ (session'.status = "completed" /\ session.status /= "completed") => pc = "complete"
      /\ submissions' /= submissions =>
           (pc = "insert" /\ session.status \in {"completed", "locked"})
      /\ (session' /= session /\ session'.status = "locked") =>
           (pc = "lock" /\ runSubmission \in Rows
              /\ session'.lockedBySubmissionId = runSubmission)
      /\ (draft.exists /\ ~draft'.exists) => (pc = "delete" /\ session.status = "locked") ]_vars

\* a run has completed the session, inserted its row and locked the session
\* with it, and is about to delete the draft
C23_Witness ==
  /\ pc = "delete" /\ draft.exists
  /\ session.status = "locked" /\ session.lockedBySubmissionId = runSubmission
  /\ runSubmission \in Rows

\* C24: once submitTest has been invoked or the time has expired, no
\* saveDraftAnswers call is issued any more, also not after the submit
\* attempt is over.
C24_NoSaveAfterSubmitBegan ==
  [][ SaveIssued => (runCount' = 0 /\ ~isTimeExpired') ]_vars

\* C25: once the component is torn down its intervals are cleared, and as
\* long as it stays torn down no draft save is issued and no submitTest run
\* is started.
C25_NoTicksAfterTeardown ==
  [][ /\ ~mounted' => (~timerActive' /\ ~saveIntervalActive')
      /\ ~mounted => (~SaveIssued /\ runCount' = runCount) ]_vars

\* the student has left a page whose time had expired and whose auto-submit
\* is still in flight
C25_Witness == ~mounted /\ resultsView.to = "dashboard" /\ pc /= "idle"

\* ===================================================================
\* Scoring: the manual submission path over assessments of varying marks
\* ===================================================================
\* marks a question of the scoring assessments can carry
ScoreMarks == {0, 1, 2, 17, 23}

\* two questions: an MCQ question, then an MCQ or a theory question
ScoreQuestionBanks ==
  { << [id |-> "q1", type |-> "MCQ", correct_answer |-> "A", marks |-> m1],
       [id |-> "q2", type |-> t2, correct_answer |-> "B", marks |-> m2] >> :
      m1 \in ScoreMarks, m2 \in ScoreMarks, t2 \in {"MCQ", "THEORY"} }

InitScore ==
  /\ questionBank \in ScoreQuestionBanks
  /\ durationMinutes = ScenarioAssessment.duration_minutes
  /\ EmptyStores
  /\ FreshComponent
  /\ NoHistory
  /\ IdleTabs
  /\ IdleLab
  /\ admin = IdleAdmin

NextScore ==
  \/ InitializeSession
  \/ InitializeDraft
  \/ AnswerChange
  \/ SaveLands
  \/ SubmitClick
  \/ ConfirmUnanswered
  \/ ConfirmSubmit
  \/ StepComplete
  \/ StepInsert
  \/ StepLock
  \/ StepDelete

SpecScore == InitScore /\ [][NextScore]_vars

RECURSIVE MarksUpTo(_, _)
MarksUpTo(qs, n) == IF n = 0 THEN 0 ELSE MarksUpTo(qs, n - 1) + qs[n].marks

\* ---- C9: the stored total_score is mcq_score / totalMarks * 100 rounded
\* to the nearest integer (halves up) when totalMarks, the sum of the marks
\* of all questions of the assessment, is positive, and 0 when it is 0; it
\* is an integer in 0..100 whenever mcq_score <= totalMarks
C9_PercentageRounded ==
  \A i \in Rows :
    LET m == submissions[i].mcq_score
        t == MarksUpTo(questionBank, Len(questionBank))
        p == submissions[i].total_score
    IN /\ t > 0 => (2 * t * p <= 200 * m + t /\ 200 * m + t < 2 * t * p + 2 * t)
       /\ t = 0 => p = 0
       /\ m <= t => p \in 0..100

\* ===================================================================
\* Session manager: two browser tabs of one student on one assessment
\* ===================================================================
\* the clock of the two-tab flow stops here
MaxNow == 180

\* everything of the test view but the clock
pageVars == <<questionBank, durationMinutes, session, submissions, draft, pendingSave,
              stateVars, effectVars, runVars, histVars, resultsView>>

\* find(assessmentId, studentId) looking at sessions in progress only
FindSession_ActiveOnly(rows) ==
  IF \E r \in rows : r.status = "in_progress"
    THEN CHOOSE r \in rows : r.status = "in_progress"
    ELSE NoSession

\* find(assessmentId, studentId): the session of the pair, if any
FindSession(rows) == IF rows = {} THEN NoSession ELSE CHOOSE r \in rows : TRUE

\* a new session row: startedAt = now, durationSeconds = durationMinutes * 60
NewSession(rows, minutes, t) ==
  [exists |-> TRUE, id |-> SessionId + Cardinality(rows), startedAt |-> t,
   durationSeconds |-> minutes * 60,
   status |-> "in_progress", lockedBySubmissionId |-> NoSub]

\* create as an unconditional insert
CreateSession_Insert(rows, minutes, t) == rows \cup {NewSession(rows, minutes, t)}

\* create(assessmentId, studentId, durationSeconds) as find-or-create: the
\* row is inserted only if the pair has none
CreateSession(rows, minutes, t) ==
  IF FindSession(rows).exists THEN rows
  ELSE rows \cup {NewSession(rows, minutes, t)}

\* the stored row a tab's session object stands for
StoredRow(s) == CHOOSE r \in sessionRows : r.id = s.id

\* getOrCreateSession, the lookup: a session found is returned as it is
TabFind(t) ==
  /\ tabs[t].pc = "idle"
  /\ LET s == FindSession(sessionRows) IN
       tabs' = [tabs EXCEPT ![t] =
         IF s.exists
           THEN [pc |-> "have", found |-> TRUE, session |-> s,
                 timeLeft |-> calculateRemainingTime(s, now)]
           ELSE [pc |-> "create", found |-> FALSE, session |-> NoSession,
                 timeLeft |-> 0]]
  /\ UNCHANGED <<sessionRows, now, pageVars>>
  /\ UNCHANGED <<codeRun, lab, admin>>

\* getOrCreateSession, the creation path, then setTimeLeft(remaining)
TabCreate(t) ==
  /\ tabs[t].pc = "create"
  /\ sessionRows' = CreateSession(sessionRows, durationMinutes, now)
  /\ LET s == FindSession(sessionRows') IN
       tabs' = [tabs EXCEPT ![t] =
         [pc |-> "have", found |-> FALSE, session |-> s,
          timeLeft |-> calculateRemainingTime(s, now)]]
  /\ UNCHANGED <<now, pageVars>>
  /\ UNCHANGED <<codeRun, lab, admin>>

\* what the countdown callback reads
PolledRemaining_Decrement(s, t, local) == local - 1

\* const remaining = calculateRemainingTime(testSession)
PolledRemaining(s, t, local) == calculateRemainingTime(s, t)

\* one poll of the countdown of a tab: setTimeLeft(remaining), or
\* setTimeLeft(0) and the end of the polling when the time is up
TabPoll(t) ==
  /\ tabs[t].pc = "have"
  /\ LET remaining == PolledRemaining(tabs[t].session, now, tabs[t].timeLeft) IN
       tabs' = [tabs EXCEPT ![t].timeLeft = IF remaining <= 0 THEN 0 ELSE remaining,
                            ![t].pc = IF remaining <= 0 THEN "expired" ELSE "have"]
  /\ UNCHANGED <<sessionRows, now, pageVars>>
  /\ UNCHANGED <<codeRun, lab, admin>>

\* the tab is closed or reloaded: the next load calls getOrCreateSession again
TabClose(t) ==
  /\ tabs[t].pc \in {"have", "expired"}
  /\ tabs' = [tabs EXCEPT ![t] = IdleTab]
  /\ UNCHANGED <<sessionRows, now, pageVars>>
  /\ UNCHANGED <<codeRun, lab, admin>>

\* a submission of the session goes through completeTestSession
RowCompleted ==
  /\ \E r \in sessionRows :
       /\ completeTestSession(r) /= r
       /\ sessionRows' = (sessionRows \ {r}) \cup {completeTestSession(r)}
  /\ UNCHANGED <<tabs, now, pageVars>>
  /\ UNCHANGED <<codeRun, lab, admin>>

\* ... and through lockTestSession with the id of its submissions row
RowLocked ==
  /\ \E r \in sessionRows :
       /\ r.status = "completed"
       /\ sessionRows' = (sessionRows \ {r}) \cup {lockTestSession(r, r.id)}
  /\ UNCHANGED <<tabs, now, pageVars>>
  /\ UNCHANGED <<codeRun, lab, admin>>

ClockAdvances ==
  /\ now < MaxNow
  /\ now' = now + ClockStep
  /\ UNCHANGED <<sessionRows, tabs, pageVars>>
  /\ UNCHANGED <<codeRun, lab, admin>>

InitSessions ==
  /\ questionBank = ResumeAssessment.questions
  /\ durationMinutes = ResumeAssessment.duration_minutes
  /\ EmptyStores
  /\ FreshComponent
  /\ NoHistory
  /\ IdleTabs
  /\ IdleLab
  /\ admin = IdleAdmin

NextSessions ==
  \/ \E t \in Tabs : TabFind(t)
  \/ \E t \in Tabs : TabCreate(t)
  \/ \E t \in Tabs : TabPoll(t)
  \/ \E t \in Tabs : TabClose(t)
  \/ RowCompleted
  \/ RowLocked
  \/ ClockAdvances

SpecSessions == InitSessions /\ [][NextSessions]_vars

\* a getOrCreateSession call of tab t returns in this step
Returns(t) == tabs[t].pc \in {"idle", "create"} /\ tabs'[t].pc = "have"

\* ---- C11: a getOrCreateSession call made when the pair already has a
\* session returns that stored row unchanged, whatever its status, creates
\* no row, and its id and startedAt are those every earlier call returned
C11_SecondCallReturnsSame ==
  [][ \A t \in Tabs :
        (Returns(t) /\ sessionRows /= {}) =>
          /\ sessionRows' = sessionRows
          /\ tabs'[t].session \in sessionRows
          /\ \A u \in Tabs :
               tabs[u].pc \in {"have", "expired"} =>
                 /\ tabs'[t].session.id = tabs[u].session.id
                 /\ tabs'[t].session.startedAt = tabs[u].session.startedAt ]_vars

\* a later call has returned the locked session of an earlier one
C11_Witness ==
  \E t \in Tabs :
    /\ tabs[t].pc = "have" /\ tabs[t].found
    /\ tabs[t].session.status = "locked"
    /\ now > tabs[t].session.startedAt

\* ---- C12: under any interleaving of the getOrCreateSession calls of two
\* tabs the pair has at most one session row, and the tabs that hold a
\* session hold the same id and the same startedAt
C12_OneSessionPerPair ==
  /\ Cardinality(sessionRows) <= 1
  /\ \A t, u \in Tabs :
       (tabs[t].pc \in {"have", "expired"} /\ tabs[u].pc \in {"have", "expired"}) =>
         /\ tabs[t].session.id = tabs[u].session.id
         /\ tabs[t].session.startedAt = tabs[u].session.startedAt

\* both tabs looked the session up before either had created it
C12_Witness ==
  \A t \in Tabs : tabs[t].pc = "have" /\ ~tabs[t].found

\* duration minus elapsed time of the stored row, floored at 0
DerivedRemaining(r, t) ==
  IF r.durationSeconds - (t - r.startedAt) > 0
    THEN r.durationSeconds - (t - r.startedAt) ELSE 0

\* ---- C13: the remaining time of a session is never below 0 and does not
\* increase when time advances; the timeLeft a tab shows is, after every
\* poll, the value derived from the stored startedAt and durationSeconds,
\* and it does not increase while the tab stays on the session
C13_RemainingNonIncreasing ==
  [][ /\ \A r \in sessionRows :
           /\ calculateRemainingTime(r, now) >= 0
           /\ calculateRemainingTime(r, now') >= 0
           /\ calculateRemainingTime(r, now') <= calculateRemainingTime(r, now)
      /\ \A t \in Tabs :
           (tabs[t].pc = "have" /\ tabs'[t] /= tabs[t] /\ tabs'[t].pc /= "idle") =>
             /\ tabs'[t].timeLeft = DerivedRemaining(StoredRow(tabs[t].session), now)
             /\ tabs'[t].timeLeft <= tabs[t].timeLeft
             /\ tabs'[t].timeLeft >= 0 ]_vars

\* a tab shows a part of the duration, the other the end of the time of
\* its session object, and the deadline is in the past
C13_Witness ==
  /\ \E t \in Tabs : /\ tabs[t].pc = "have"
                      /\ tabs[t].timeLeft > 0
                      /\ tabs[t].timeLeft < tabs[t].session.durationSeconds
  /\ \E r \in sessionRows : now - r.startedAt >= r.durationSeconds

\* ===================================================================
\* Reload in the middle of a two-minute test
\* ===================================================================
InitResume ==
  /\ questionBank = ResumeAssessment.questions
  /\ durationMinutes = ResumeAssessment.duration_minutes
  /\ EmptyStores
  /\ FreshComponent
  /\ NoHistory
  /\ IdleTabs
  /\ IdleLab
  /\ admin = IdleAdmin

\* the student answers and reloads, and never presses Submit Test
NextResume ==
  \/ InitializeSession
  \/ InitializeDraft
  \/ Tick
  \/ AutosaveTick
  \/ SaveLands
  \/ AnswerChange
  \/ StepComplete
  \/ StepInsert
  \/ StepLock
  \/ StepDelete
  \/ ToastNavigate
  \/ BackToDashboard
  \/ Reload
  \/ AdvanceTime

SpecResume == InitResume /\ [][NextResume]_vars

\* initializeTest passes getOrCreateTestSession, passes the end
InitGetsSession == initPc = "session" /\ initPc' = "draft"

InitEnds == initPc = "draft" /\ initPc' = "done" /\ mounted' /\ ~error'

\* ---- C14: when the test view is initialised for a session that exists
\* already, the session is taken as stored (startedAt is not reset), the
\* remaining time is the duration minus the time elapsed since startedAt,
\* and the in-memory answers are the mapping last saved in the draft store,
\* an answer to q1 in it included
C14_ReloadResumes ==
  [][ /\ (InitGetsSession /\ session.exists) =>
           (session' = session /\ testSession' = session)
      /\ InitEnds =>
           /\ timeLeft' = DerivedRemaining(session, now)
           /\ answers' = (IF draft.exists THEN draft.answers ELSE EmptyAnswers)
           /\ (draft.exists /\ "q1" \in DOMAIN draft.answers) =>
                ("q1" \in DOMAIN answers' /\ answers'["q1"] = draft.answers["q1"]) ]_vars

\* a page loaded in the middle of the test shows what is left of the time
\* and the answer to q1 saved before the reload
C14_Witness ==
  /\ mounted /\ initPc = "done" /\ ~error /\ ~ticked
  /\ now > session.startedAt
  /\ timeLeft = DerivedRemaining(session, now)
  /\ timeLeft > 0 /\ timeLeft < session.durationSeconds
  /\ draft.exists /\ "q1" \in DOMAIN draft.answers
  /\ answers = draft.answers

\* ===================================================================
\* Code runner: PistonService.execute and its output comparison
\* ===================================================================
\* a text is the sequence of its characters
MaxOutLen == 4

\* one letter, the blank and the line feed
Chars == {"a", " ", "\n"}

Whitespace == {" ", "\n"}

Texts == UNION {[1..n -> Chars] : n \in 0..MaxOutLen}

\* String.prototype.trim
RECURSIVE TrimStart(_)
TrimStart(x) ==
  IF x /= << >> /\ Head(x) \in Whitespace THEN TrimStart(Tail(x)) ELSE x

RECURSIVE TrimEnd(_)
TrimEnd(x) ==
  IF x /= << >> /\ x[Len(x)] \in Whitespace
    THEN TrimEnd(SubSeq(x, 1, Len(x) - 1)) ELSE x

Trim(x) == TrimEnd(TrimStart(x))

\* x.split('\n'): the pieces between the newlines, at least one
RECURSIVE Split(_, _)
Split(x, piece) ==
  IF x = << >> THEN <<piece>>
  ELSE IF Head(x) = "\n" THEN <<piece>> \o Split(Tail(x), << >>)
  ELSE Split(Tail(x), Append(piece, Head(x)))

\* lines.map(line => line.trim()).filter(line => line.length > 0)
RECURSIVE TrimmedNonEmpty(_)
TrimmedNonEmpty(lines) ==
  IF lines = << >> THEN << >>
  ELSE (IF Trim(Head(lines)) = << >> THEN << >> ELSE <<Trim(Head(lines))>>)
       \o TrimmedNonEmpty(Tail(lines))

\* lines.join('\n')
RECURSIVE Join(_)
Join(lines) ==
  IF lines = << >> THEN << >>
  ELSE IF Len(lines) = 1 THEN Head(lines)
  ELSE Head(lines) \o <<"\n">> \o Join(Tail(lines))

\* normalizeOutput comparing the texts as a whole, trimmed
normalizeOutput_TrimOnly(output) == Trim(output)

\* output.trim().split('\n').map(trim).filter(nonempty).join('\n')
normalizeOutput(output) == Join(TrimmedNonEmpty(Split(Trim(output), << >>)))

\* what the execution service answers: the request throws, or a run with
\* stdout, stderr and an exit code
Responses(stdouts) ==
  [threw : BOOLEAN, stdout : stdouts, stderr : {<< >>, <<"a">>}, code : {0, 1}]

\* PistonService.execute, from the response on
execute(response, expectedOutput) ==
  LET normalizedActualOutput == normalizeOutput(response.stdout)
      normalizedExpectedOutput ==
        IF expectedOutput /= << >> THEN normalizeOutput(expectedOutput) ELSE << >>
      failed == [status |-> "error", testsPassed |-> 0, totalTests |-> 1,
                 output |-> << >>, expectedOutput |-> << >>, actualOutput |-> << >>]
      ran == [status |-> "success", testsPassed |-> 1, totalTests |-> 1,
              output |-> Trim(response.stdout),
              expectedOutput |-> normalizedExpectedOutput,
              actualOutput |-> normalizedActualOutput]
  IN IF response.threw THEN failed
     ELSE IF response.code /= 0 \/ response.stderr /= << >>
       THEN [ran EXCEPT !.status = "error", !.testsPassed = 0]
     ELSE IF expectedOutput /= << >> /\ normalizedActualOutput /= normalizedExpectedOutput
       THEN [ran EXCEPT !.status = "test_failed", !.testsPassed = 0]
     ELSE ran

\* everything but the coding lab
pageAndTabVars == <<storeVars, stateVars, effectVars, runVars, histVars, resultsView, tabVars, admin>>

\* one execution: the program printed codeRun.actual
Execute ==
  /\ codeRun.result = NoResult
  /\ \E r \in Responses({codeRun.actual}) :
       codeRun' = [codeRun EXCEPT !.result = execute(r, codeRun.expected)]
  /\ UNCHANGED <<lab, pageAndTabVars>>

InitOutput ==
  /\ questionBank = ScenarioAssessment.questions
  /\ durationMinutes = ScenarioAssessment.duration_minutes
  /\ EmptyStores
  /\ FreshComponent
  /\ NoHistory
  /\ IdleTabs
  /\ lab = IdleCall
  /\ admin = IdleAdmin
  /\ codeRun \in [actual : Texts, expected : Texts, result : {NoResult}]

NextOutput == Execute

SpecOutput == InitOutput /\ [][NextOutput]_vars

\* the lines of a text without their trailing whitespace, blank lines left out
RECURSIVE EndTrimmedNonBlank(_)
EndTrimmedNonBlank(lines) ==
  IF lines = << >> THEN << >>
  ELSE (IF TrimEnd(Head(lines)) = << >> THEN << >> ELSE <<TrimEnd(Head(lines))>>)
       \o EndTrimmedNonBlank(Tail(lines))

\* two texts that differ only by trailing whitespace or blank lines
DiffersOnlyByBlanks(x, y) ==
  EndTrimmedNonBlank(Split(x, << >>)) = EndTrimmedNonBlank(Split(y, << >>))

\* a text without blank lines and without whitespace around any line
IsNormal(x) ==
  x /= << >> =>
    \A i \in DOMAIN Split(x, << >>) :
      LET line == Split(x, << >>)[i] IN line /= << >> /\ Trim(line) = line

\* C19: the comparison is done on normalized text: the normal form has no
\* blank line and no whitespace around a line, normalizing twice gives the
\* same as once, and a program that ran cleanly and printed a text that
\* differs from the expected one only by trailing whitespace or blank lines
\* is judged to have passed.
C19_NormalizedComparison ==
  /\ \A x \in {codeRun.actual, codeRun.expected} :
       /\ IsNormal(normalizeOutput(x))
       /\ normalizeOutput(normalizeOutput(x)) = normalizeOutput(x)
  /\ DiffersOnlyByBlanks(codeRun.actual, codeRun.expected) =>
       normalizeOutput(codeRun.actual) = normalizeOutput(codeRun.expected)
  /\ (codeRun.result.status \in {"success", "test_failed"} /\ codeRun.expected /= << >>) =>
       /\ codeRun.result.actualOutput = normalizeOutput(codeRun.actual)
       /\ codeRun.result.expectedOutput = normalizeOutput(codeRun.expected)
       /\ (codeRun.result.status = "success") <=>
            (normalizeOutput(codeRun.actual) = normalizeOutput(codeRun.expected))
       /\ DiffersOnlyByBlanks(codeRun.actual, codeRun.expected) => codeRun.result.status = "success"

\* a clean run whose output has a blank line or trailing whitespace inside,
\* which the expected output has not, was judged
C19_Witness ==
  /\ codeRun.result.status = "success"
  /\ codeRun.expected /= << >>
  /\ codeRun.actual /= codeRun.expected
  /\ Trim(codeRun.actual) /= Trim(codeRun.expected)
  /\ DiffersOnlyByBlanks(codeRun.actual, codeRun.expected)

\* C26: execute reports a test as passed only if the normalized stdout
\* equals the normalized expected output, whatever the expected output is,
\* an empty one included.
C26_PassedOnlyIfEqual ==
  (codeRun.result.status = "success" /\ codeRun.result.testsPassed = 1) =>
    normalizeOutput(codeRun.actual) = normalizeOutput(codeRun.expected)

\* ===================================================================
\* Coding lab: executeAndSaveCode and executeCodeWithHiddenTests
\* ===================================================================
\* the hidden test cases a question may have
HiddenRows ==
  { [id |-> "h1", test_number |-> 2, is_active |-> TRUE,
     input |-> <<"1">>, expected_output |-> <<"a">>],
    [id |-> "h2", test_number |-> 1, is_active |-> TRUE,
     input |-> <<"2">>, expected_output |-> <<"a", "a">>],
    [id |-> "h3", test_number |-> 3, is_active |-> FALSE,
     input |-> <<"1">>, expected_output |-> <<"a">>] }

\* the sample data a question may have: none, one of the two, or both
LabQuestions == [sample_input : {<< >>, <<"1">>}, sample_output : {<< >>, <<"a">>}]

\* what the execution service may answer to a submitted program
LabResponses ==
  { r \in Responses({<<"a">>, <<"a", "\n", "a">>, <<"a", "a", "\n">>}) :
      /\ r.threw => (r.stderr = << >> /\ r.code = 0 /\ r.stdout = <<"a">>)
      /\ (r.stderr /= << >> \/ r.code /= 0) => r.stdout = <<"a">> }

\* the rows in some order that ascends by test_number
Ascending(rows) ==
  { q \in [1..Cardinality(rows) -> rows] :
      /\ \A i, j \in DOMAIN q : i /= j => q[i] /= q[j]
      /\ \A i, j \in DOMAIN q : i < j => q[i].test_number <= q[j].test_number }

\* CodingLabDatabaseService.getHiddenTests: a failed query gives no tests
getHiddenTests(rows, ok) ==
  IF ok THEN Ascending({h \in rows : h.is_active}) ELSE {<< >>}

\* the status from the sample result alone
FinalStatus_SampleOnly(result, hiddenTestsData) ==
  IF result.status = "success" THEN "accepted" ELSE "error"

\* finalStatus of executeAndSaveCode
FinalStatus(result, hiddenTestsData) ==
  IF result.testsPassed = 1 /\ hiddenTestsData.totalTests > 0
    THEN (IF hiddenTestsData.testsPassed = hiddenTestsData.totalTests
            THEN "accepted" ELSE "error")
    ELSE (IF result.status = "success" THEN "accepted" ELSE "error")

\* a row that counts the sample test only
LabSubmission_SampleOnly(result, hiddenTestsData) ==
  [status |-> FinalStatus(result, hiddenTestsData),
   tests_passed |-> result.testsPassed,
   total_tests |-> 1]

\* the row executeAndSaveCode hands to saveSubmission
LabSubmission(result, hiddenTestsData) ==
  [status |-> FinalStatus(result, hiddenTestsData),
   tests_passed |-> IF result.testsPassed = 1 /\ hiddenTestsData.totalTests > 0
                      THEN 1 + hiddenTestsData.testsPassed ELSE result.testsPassed,
   total_tests |-> IF result.testsPassed = 1 /\ hiddenTestsData.totalTests > 0
                     THEN 1 + hiddenTestsData.totalTests ELSE 1]

\* the result executeCodeWithHiddenTests returns
PreviewResult(result, hiddenTestsData) ==
  IF result.testsPassed = 1 /\ hiddenTestsData.totalTests > 0
    THEN [result EXCEPT
            !.totalTests = 1 + hiddenTestsData.totalTests,
            !.testsPassed = 1 + hiddenTestsData.testsPassed,
            !.status = IF hiddenTestsData.testsPassed = hiddenTestsData.totalTests
                         THEN "success" ELSE "test_failed"]
    ELSE result

\* the result executeCodeWithHiddenTests returns from its catch
PreviewFailed == [NoResult EXCEPT !.status = "error", !.totalTests = 1]

\* what the execution service answers to the program on a stdin
Executor(program, stdin) ==
  IF program = << >> THEN LabResponses ELSE {program[stdin]}

\* the stdin of the sample test: executeAndSaveCode builds the test case
\* only if the question has both a sample input and a sample output,
\* executeCodeWithHiddenTests always; execute takes the input of the first
\* test case, or ''
SampleStdin(fn, question) ==
  IF fn = "executeAndSaveCode"
    THEN (IF question.sample_input /= << >> /\ question.sample_output /= << >>
            THEN question.sample_input ELSE << >>)
    ELSE question.sample_input

\* the student runs or submits the program
LabCall(fn) ==
  /\ lab.pc = "idle"
  /\ lab' = [lab EXCEPT !.fn = fn, !.pc = "question"]
  /\ UNCHANGED <<codeRun, pageAndTabVars>>

\* step 1: getQuestion; a missing question or a failed query throws
LabGetQuestion ==
  /\ lab.pc = "question"
  /\ \E found \in BOOLEAN :
       lab' = IF found THEN [lab EXCEPT !.pc = "sample"]
              ELSE IF lab.fn = "executeAndSaveCode" THEN [lab EXCEPT !.pc = "thrown"]
              ELSE [lab EXCEPT !.pc = "done", !.returned = PreviewFailed]
  /\ UNCHANGED <<codeRun, pageAndTabVars>>

\* steps 2 and 3: the sample test
LabSample ==
  /\ lab.pc = "sample"
  /\ \E r \in Executor(lab.program, SampleStdin(lab.fn, lab.question)) :
       LET result == execute(r, lab.question.sample_output) IN
       lab' = [lab EXCEPT
                 !.result = result,
                 !.pc = IF result.testsPassed = 1 THEN "fetch" ELSE "finish",
                 !.log = Append(lab.log, [kind |-> "sample", id |-> "sample", response |-> r,
                                          expected |-> lab.question.sample_output])]
  /\ UNCHANGED <<codeRun, pageAndTabVars>>

\* step 4: the sample passed, the hidden tests are fetched
LabFetch ==
  /\ lab.pc = "fetch"
  /\ \E ok \in BOOLEAN : \E hiddenTests \in getHiddenTests(lab.hidden, ok) :
       lab' = [lab EXCEPT
                 !.hiddenTests = hiddenTests,
                 !.pc = IF Len(hiddenTests) > 0 THEN "hidden" ELSE "finish",
                 !.log = Append(lab.log, [kind |-> "fetch", id |-> "fetch",
                                          response |-> [threw |-> ~ok, stdout |-> << >>,
                                                        stderr |-> << >>, code |-> 0],
                                          expected |-> << >>])]
  /\ UNCHANGED <<codeRun, pageAndTabVars>>

\* runHiddenTests: one pass of its loop
LabHidden ==
  /\ lab.pc = "hidden"
  /\ LET done == Len(lab.hiddenData.results)
         test == lab.hiddenTests[done + 1]
     IN \E r \in Executor(lab.program, test.input) :
          LET result == execute(r, test.expected_output)
              passed == result.status = "success" /\ result.testsPassed = 1
          IN lab' = [lab EXCEPT
                       !.hiddenData =
                         [testsPassed |-> lab.hiddenData.testsPassed + (IF passed THEN 1 ELSE 0),
                          totalTests |-> Len(lab.hiddenTests),
                          results |-> Append(lab.hiddenData.results,
                                             [testNumber |-> test.test_number,
                                              passed |-> passed])],
                       !.pc = IF done + 1 = Len(lab.hiddenTests) THEN "finish" ELSE "hidden",
                       !.log = Append(lab.log, [kind |-> "hidden", id |-> test.id,
                                                response |-> r,
                                                expected |-> test.expected_output])]
  /\ UNCHANGED <<codeRun, pageAndTabVars>>

\* step 5 of executeAndSaveCode: saveSubmission, which may throw
LabSave ==
  /\ lab.pc = "finish"
  /\ lab.fn = "executeAndSaveCode"
  /\ \E ok \in BOOLEAN :
       lab' = IF ok
                THEN [lab EXCEPT
                        !.stored = lab.stored \cup {LabSubmission(lab.result, lab.hiddenData)},
                        !.pc = "done"]
                ELSE [lab EXCEPT !.pc = "thrown"]
  /\ UNCHANGED <<codeRun, pageAndTabVars>>

\* executeCodeWithHiddenTests returns its result
LabReturn ==
  /\ lab.pc = "finish"
  /\ lab.fn = "executeCodeWithHiddenTests"
  /\ lab' = [lab EXCEPT !.pc = "done", !.returned = PreviewResult(lab.result, lab.hiddenData)]
  /\ UNCHANGED <<codeRun, pageAndTabVars>>

InitLab ==
  /\ questionBank = ScenarioAssessment.questions
  /\ durationMinutes = ScenarioAssessment.duration_minutes
  /\ EmptyStores
  /\ FreshComponent
  /\ NoHistory
  /\ IdleTabs
  /\ codeRun = IdleRun
  /\ admin = IdleAdmin
  /\ \E question \in LabQuestions : \E rows \in SUBSET HiddenRows :
       lab = [IdleCall EXCEPT !.question = question, !.hidden = rows]

NextLab ==
  \/ \E fn \in {"executeAndSaveCode", "executeCodeWithHiddenTests"} : LabCall(fn)
  \/ LabGetQuestion
  \/ LabSample
  \/ LabFetch
  \/ LabHidden
  \/ LabSave
  \/ LabReturn

SpecLab == InitLab /\ [][NextLab]_vars

\* ---- the page: Run Code, then Submit
\* the texts a program is run on
Stdins == {<< >>, <<"1">>, <<"2">>}

\* the programs: what each prints on each stdin, or that it fails on it
Programs ==
  [Stdins -> { r \in LabResponses :
                 /\ ~r.threw /\ r.stderr = << >>
                 /\ r.stdout \in {<<"a">>, <<"a", "a", "\n">>} }]

\* handleSubmitCode: the last Run Code result must be a success, then
\* executeAndSaveCode is called
handleSubmitCode ==
  /\ lab.pc = "done"
  /\ lab.fn = "executeCodeWithHiddenTests"
  /\ lab.returned.status = "success"
  /\ lab' = [lab EXCEPT !.fn = "executeAndSaveCode", !.pc = "question",
                         !.result = NoResult, !.hiddenTests = << >>,
                         !.hiddenData = NoHiddenData]
  /\ UNCHANGED <<codeRun, pageAndTabVars>>

InitPair ==
  /\ questionBank = ScenarioAssessment.questions
  /\ durationMinutes = ScenarioAssessment.duration_minutes
  /\ EmptyStores
  /\ FreshComponent
  /\ NoHistory
  /\ IdleTabs
  /\ codeRun = IdleRun
  /\ admin = IdleAdmin
  /\ \E question \in LabQuestions : \E rows \in SUBSET HiddenRows :
       \E program \in Programs :
         lab = [IdleCall EXCEPT !.question = question, !.hidden = rows,
                                !.program = program]

NextPair == NextLab \/ handleSubmitCode

SpecPair == InitPair /\ [][NextPair]_vars

\* the executions of the log, the fetches left out
Executions == SelectSeq(lab.log, LAMBDA e : e.kind /= "fetch")

\* the hidden tests executed, in order
HiddenExecuted == SelectSeq(lab.log, LAMBDA e : e.kind = "hidden")

\* a test passes when the program ran cleanly and, where an output is
\* expected, printed it up to normalization
Passes(e) ==
  /\ ~e.response.threw
  /\ e.response.code = 0
  /\ e.response.stderr = << >>
  /\ e.expected /= << >> => normalizeOutput(e.response.stdout) = normalizeOutput(e.expected)

\* C17: a stored coding submission is accepted only if the sample test
\* passed and every hidden test that was run passed; if the sample test or
\* any hidden test failed, the stored status is error.
C17_AcceptedOnlyIfAllPassed ==
  \A row \in lab.stored :
    /\ row.status \in {"accepted", "error"}
    /\ row.status = "accepted" =>
         /\ Executions /= << >>
         /\ Executions[1].kind = "sample"
         /\ \A i \in DOMAIN Executions : Passes(Executions[i])
    /\ (\E i \in DOMAIN Executions : ~Passes(Executions[i])) => row.status = "error"

\* a submission stored as error after the sample and one hidden test passed
\* and another hidden test failed
C17_Witness ==
  /\ \E row \in lab.stored : row.status = "error" /\ row.tests_passed = 2
  /\ Len(HiddenExecuted) = 2
  /\ Passes(Executions[1])

\* the hidden part of the call is over
HiddenPartOver == lab.pc \in {"finish", "done", "thrown"}

\* C18: no hidden test is fetched or executed unless the sample test was
\* executed first and passed; once the sample has passed, every active
\* hidden test is executed, in ascending test_number order, whatever the
\* earlier hidden tests gave.
C18_AllHiddenAfterSample ==
  /\ \A i \in DOMAIN lab.log :
       lab.log[i].kind \in {"fetch", "hidden"} =>
         (i > 1 /\ lab.log[1].kind = "sample" /\ Passes(lab.log[1]))
  /\ (HiddenPartOver /\ lab.log /= << >> /\ Passes(lab.log[1])) =>
       /\ {HiddenExecuted[i].id : i \in DOMAIN HiddenExecuted}
            = {h.id : h \in {r \in lab.hidden : r.is_active}}
       /\ Len(HiddenExecuted) = Cardinality({r \in lab.hidden : r.is_active})
       /\ \A i, j \in DOMAIN HiddenExecuted :
            i < j =>
              \A a, b \in lab.hidden :
                (a.id = HiddenExecuted[i].id /\ b.id = HiddenExecuted[j].id)
                  => a.test_number <= b.test_number

\* the same, for the calls whose query of the hidden tests succeeded
FetchSucceeded == \A i \in DOMAIN lab.log : lab.log[i].kind = "fetch" => ~lab.log[i].response.threw

AllHiddenWhenFetched == FetchSucceeded => C18_AllHiddenAfterSample

\* the active hidden tests of the question
ActiveHidden == {h \in lab.hidden : h.is_active}

\* C27: a stored submission is accepted only if every active hidden test of
\* the question was executed and passed, also when the query of the hidden
\* tests fails.
C27_AcceptedMeansAllHiddenRan ==
  \A row \in lab.stored :
    row.status = "accepted" =>
      /\ {HiddenExecuted[i].id : i \in DOMAIN HiddenExecuted} = {h.id : h \in ActiveHidden}
      /\ \A i \in DOMAIN HiddenExecuted : Passes(HiddenExecuted[i])

\* the tests of the log that passed
PassedCount == Len(SelectSeq(Executions, Passes))

\* C30: a stored submission has 0 <= tests_passed <= total_tests; total_tests
\* is 1 when the sample test failed or no hidden test was run and 1 + the
\* number of hidden tests run otherwise; tests_passed counts the tests that
\* passed; the status is accepted exactly if tests_passed = total_tests.
C30_Counts ==
  \A row \in lab.stored :
    /\ 0 <= row.tests_passed /\ row.tests_passed <= row.total_tests
    /\ row.total_tests = IF ~Passes(Executions[1]) \/ HiddenExecuted = << >>
                            THEN 1 ELSE 1 + Len(HiddenExecuted)
    /\ row.tests_passed = PassedCount
    /\ (row.status = "accepted") <=> (row.tests_passed = row.total_tests)

\* a submission stored with one of two hidden tests failed
C30_Witness ==
  \E row \in lab.stored :
    row.total_tests = 3 /\ row.tests_passed = 2 /\ row.status = "error"

\* C28: for the same question and program, with an executor that depends on
\* the stdin only and hidden tests that could be fetched, the preview returns
\* success exactly if executeAndSaveCode stores accepted, and both report the
\* same testsPassed and totalTests.
C28_PreviewAgreesWithSubmit ==
  (lab.fn = "executeAndSaveCode" /\ lab.pc = "done"
     /\ lab.returned.status /= "none" /\ FetchSucceeded) =>
    \A row \in lab.stored :
      /\ (row.status = "accepted") <=> (lab.returned.status = "success")
      /\ row.tests_passed = lab.returned.testsPassed
      /\ row.total_tests = lab.returned.totalTests

\* ===================================================================
\* User management: toggleBlockUser, changeUserRole, toggleActiveStatus
\* ===================================================================
Roles == {"student", "faculty", "admin"}

Users == [is_blocked : BOOLEAN, role : Roles, is_active : BOOLEAN]

\* what an update of one table may do: change the row, answer with an
\* error, or throw
UpdateOutcomes == {"ok", "error", "throws"}

\* everything but the user management
notAdminVars == <<storeVars, stateVars, effectVars, runVars, histVars, resultsView,
                  tabVars, codeRun, lab>>

\* the admin uses a control of the user shown in the list; the handler runs
\* up to its first await
AdminCall(field, value) ==
  /\ admin.pc \in {"idle", "done"}
  /\ admin' = [admin EXCEPT !.pc = "profile", !.field = field, !.value = value,
                             !.profileErr = FALSE]
  /\ UNCHANGED notAdminVars

\* await supabase.from('user_profiles').update({ field: value })
AdminUpdateProfile ==
  /\ admin.pc = "profile"
  /\ \E outcome \in UpdateOutcomes :
       admin' = [admin EXCEPT
                   !.profile = IF outcome = "ok"
                                 THEN [admin.profile EXCEPT ![admin.field] = admin.value]
                                 ELSE admin.profile,
                   !.profileErr = (outcome = "error"),
                   !.pc = IF outcome = "throws" THEN "done" ELSE "users"]
  /\ UNCHANGED notAdminVars

\* if (profileErr || usersErr) { alert; return }, else setUsers(...)
ListAfterUpdate(list, field, value, failed) ==
  IF failed THEN list ELSE [list EXCEPT ![field] = value]

\* await supabase.from('users').update({ field: value }) and the rest of
\* the handler
AdminUpdateUsers ==
  /\ admin.pc = "users"
  /\ \E outcome \in UpdateOutcomes :
       admin' = [admin EXCEPT
                   !.userRow = IF outcome = "ok"
                                 THEN [admin.userRow EXCEPT ![admin.field] = admin.value]
                                 ELSE admin.userRow,
                   !.listed = ListAfterUpdate(admin.listed, admin.field, admin.value,
                                              admin.profileErr \/ outcome /= "ok"),
                   !.pc = "done"]
  /\ UNCHANGED notAdminVars

InitAdmin ==
  /\ questionBank = ScenarioAssessment.questions
  /\ durationMinutes = ScenarioAssessment.duration_minutes
  /\ EmptyStores
  /\ FreshComponent
  /\ NoHistory
  /\ IdleTabs
  /\ IdleLab
  /\ \E u \in Users : admin = [IdleAdmin EXCEPT !.profile = u, !.userRow = u, !.listed = u]

\* the toggles are called with the value shown and write its negation
NextAdmin ==
  \/ \E field \in {"is_blocked", "is_active"} : AdminCall(field, ~admin.listed[field])
  \/ \E role \in Roles : AdminCall("role", role)
  \/ AdminUpdateProfile
  \/ AdminUpdateUsers

SpecAdmin == InitAdmin /\ [][NextAdmin]_vars

\* C29: when a handler has returned, the field it was to change has the
\* same value in the user_profiles row, in the users row and in the list.
C29_TablesAgree ==
  admin.pc = "done" =>
    /\ admin.profile[admin.field] = admin.userRow[admin.field]
    /\ admin.listed[admin.field] = admin.profile[admin.field]

====
